---- MODULE Spec2Model ----
(***************************************************************************)
(* Model of khl.py's gateway ingestion layer (src/khl/receiver.py):        *)
(* WebsocketReceiver (discovery, connect, heartbeat task, receive loop)    *)
(* and WebhookReceiver (per-request handler on_recv, dedup ledger).        *)
(*                                                                         *)
(* A Python dict is a record with a field `keys` (the keys present) and    *)
(* one field per possible key; d[k] on an absent key raises KeyError,      *)
(* which the operators below model as the `raised` outcome.                *)
(***************************************************************************)
EXTENDS Integers, Sequences, FiniteSets, Bags, TLC

\* ------------------------------------------------------------------ bounds
MaxStarts == 2        \* start() invocations of the websocket receiver
MaxFrames == 2        \* frames read from websocket connections in one run
MaxDeliveries == 2    \* webhook requests in one run
MaxHandlers == 2      \* webhook handlers running concurrently
QueueMaxSize == 1     \* maxsize of the asyncio.Queue the owner supplies
MaxRequests == 3      \* remote requests a Guild makes in one run

\* ------------------------------------------------------- program constants
WINDOW == 600         \* dedup window of _is_dup, seconds
HEARTBEAT_SIGNAL == 2 \* 's' of the heartbeat message
CHALLENGE_TYPE == 255 \* inner type tag of the challenge handshake

\* The instants time.time() is sampled at (seconds since the first delivery).
Instants == {0, WINDOW, WINDOW + 1}

\* ------------------------------------------------------------ dictionaries
Has(dict, k) == k \in dict.keys

\* The inner payload `d`.  `extra` stands for the rest of the event, opaque
\* to the receivers.
MkD(ks, tok, ty, ct, ch, ex) ==
  [keys |-> ks, verify_token |-> tok, type |-> ty, channel_type |-> ct,
   challenge |-> ch, extra |-> ex]

NoD == MkD({}, "", 0, "", "", "")

\* The envelope {s, sn, d}.
MkPkg(ks, s, sn, d) == [keys |-> ks, s |-> s, sn |-> sn, d |-> d]

EmptyPkg == MkPkg({}, 0, 0, NoD)

\* Bytes on the wire: the JSON text of pkg, plain or deflate-compressed, or
\* bytes that are neither.
Plain(pkg) == [enc |-> "plain", pkg |-> pkg]
Deflate(pkg) == [enc |-> "deflate", pkg |-> pkg]
Garbage == [enc |-> "garbage", pkg |-> EmptyPkg]

\* What the platform sends to a receiver that asked for compress = c.
Wire(pkg, c) == IF c THEN Deflate(pkg) ELSE Plain(pkg)

Ok(v) == [raised |-> FALSE, val |-> v]
Raise == [raised |-> TRUE, val |-> Garbage]

\* zlib.decompress(data): the plain bytes of a deflate stream; zlib.error on
\* anything else.
zlib_decompress(data) ==
  IF data.enc = "deflate" THEN Ok(Plain(data.pkg)) ELSE Raise

\* Cert.decode_raw(data): the dict the JSON text holds; raises on bytes that
\* are not JSON text (compressed or damaged bytes).
decode_raw(data) ==
  IF data.enc = "plain" THEN [raised |-> FALSE, pkg |-> data.pkg]
  ELSE [raised |-> TRUE, pkg |-> EmptyPkg]

\* Faulty variant: the compress flag is ignored and the bytes go to
\* decode_raw as received.
Decode_ignore_compress(data, c) ==
  decode_raw(data)

\* data = zlib.decompress(data) if self.compress else data
\* pkg = self._cert.decode_raw(data)
Decode(data, c) ==
  IF c
  THEN LET z == zlib_decompress(data)
       IN IF z.raised THEN [raised |-> TRUE, pkg |-> EmptyPkg]
          ELSE decode_raw(z.val)
  ELSE decode_raw(data)

\* -------------------------------------------- websocket: the receive loop
\* One iteration of `async for raw in ws_conn` (the try block and its except
\* clause), from the frame read to the next suspension point.  newest is
\* self._NEWEST_SN, hasQueue whether the owner has set pkg_queue, full
\* whether that queue is full.  Result: the new _NEWEST_SN, the branch
\* taken, the item handed to put(), and where start() stands afterwards
\* ("recv": reading the next frame, "put": suspended in put()).
LoopResult(sn, branch, item, pc) ==
  [sn |-> sn, branch |-> branch, item |-> item, pc |-> pc]

\* Faulty variant: the signal filter is missing: every decoded frame is an event
recv_loop_body_no_filter(raw, c, newest, hasQueue, full) ==
  LET dec == Decode(raw, c) IN
  IF dec.raised THEN LoopResult(newest, "except", NoD, "recv")
  ELSE LET pkg == dec.pkg IN
    IF ~Has(pkg, "sn") THEN LoopResult(newest, "except", NoD, "recv")
    ELSE IF ~Has(pkg, "d") \/ ~hasQueue
      THEN LoopResult(pkg.sn, "except", NoD, "recv")
    ELSE IF full THEN LoopResult(pkg.sn, "await_put", pkg.d, "put")
    ELSE LoopResult(pkg.sn, "put", pkg.d, "recv")

\* Faulty variant: put_nowait instead of await put: QueueFull is caught and the
\* event is dropped
recv_loop_body_put_nowait(raw, c, newest, hasQueue, full) ==
  LET dec == Decode(raw, c) IN
  IF dec.raised THEN LoopResult(newest, "except", NoD, "recv")
  ELSE LET pkg == dec.pkg IN
    IF ~Has(pkg, "s") THEN LoopResult(newest, "except", NoD, "recv")
    ELSE IF pkg.s # 0 THEN LoopResult(newest, "continue", NoD, "recv")
    ELSE IF ~Has(pkg, "sn") THEN LoopResult(newest, "except", NoD, "recv")
    ELSE IF ~Has(pkg, "d") \/ ~hasQueue \/ full
      THEN LoopResult(pkg.sn, "except", NoD, "recv")
    ELSE LoopResult(pkg.sn, "put", pkg.d, "recv")

\* Faulty variant: the sequence is recorded before the signal is looked at
recv_loop_body_sn_first(raw, c, newest, hasQueue, full) ==
  LET dec == Decode(raw, c) IN
  IF dec.raised THEN LoopResult(newest, "except", NoD, "recv")
  ELSE LET pkg == dec.pkg IN
    IF ~Has(pkg, "sn") THEN LoopResult(newest, "except", NoD, "recv")
    ELSE IF ~Has(pkg, "s") THEN LoopResult(pkg.sn, "except", NoD, "recv")
    ELSE IF pkg.s # 0 THEN LoopResult(pkg.sn, "continue", NoD, "recv")
    ELSE IF ~Has(pkg, "d") \/ ~hasQueue
      THEN LoopResult(pkg.sn, "except", NoD, "recv")
    ELSE IF full THEN LoopResult(pkg.sn, "await_put", pkg.d, "put")
    ELSE LoopResult(pkg.sn, "put", pkg.d, "recv")

\* Faulty variant: no try/except around the loop body: an error ends start()
recv_loop_body_no_except(raw, c, newest, hasQueue, full) ==
  LET dec == Decode(raw, c) IN
  IF dec.raised THEN LoopResult(newest, "except", NoD, "raised")
  ELSE LET pkg == dec.pkg IN
    IF ~Has(pkg, "s") THEN LoopResult(newest, "except", NoD, "raised")
    ELSE IF pkg.s # 0 THEN LoopResult(newest, "continue", NoD, "recv")
    ELSE IF ~Has(pkg, "sn") THEN LoopResult(newest, "except", NoD, "raised")
    ELSE IF ~Has(pkg, "d") \/ ~hasQueue
      THEN LoopResult(pkg.sn, "except", NoD, "raised")
    ELSE IF full THEN LoopResult(pkg.sn, "await_put", pkg.d, "put")
    ELSE LoopResult(pkg.sn, "put", pkg.d, "recv")

recv_loop_body(raw, c, newest, hasQueue, full) ==
  LET dec == Decode(raw, c) IN
  \* zlib.error / decode error -> except: log, continue
  IF dec.raised THEN LoopResult(newest, "except", NoD, "recv")
  ELSE LET pkg == dec.pkg IN
    \* pkg['s']: KeyError
    IF ~Has(pkg, "s") THEN LoopResult(newest, "except", NoD, "recv")
    \* if pkg['s'] != 0: continue
    ELSE IF pkg.s # 0 THEN LoopResult(newest, "continue", NoD, "recv")
    \* self._NEWEST_SN = pkg['sn']: KeyError leaves it as it was
    ELSE IF ~Has(pkg, "sn") THEN LoopResult(newest, "except", NoD, "recv")
    \* self.pkg_queue (AttributeError when never set), pkg['d'] (KeyError):
    \* _NEWEST_SN is already assigned
    ELSE IF ~Has(pkg, "d") \/ ~hasQueue
      THEN LoopResult(pkg.sn, "except", NoD, "recv")
    \* await self.pkg_queue.put(pkg['d']): suspends only on a full queue
    ELSE IF full THEN LoopResult(pkg.sn, "await_put", pkg.d, "put")
    ELSE LoopResult(pkg.sn, "put", pkg.d, "recv")

\* The heartbeat message of WebsocketReceiver.heartbeat.
HeartbeatMsg(newest) == [s |-> HEARTBEAT_SIGNAL, sn |-> newest]

\* ------------------------------------------------ webhook: dedup and handler
Response == [status |-> 200, body |-> "empty", challenge |-> ""]
json_response(ch) == [status |-> 200, body |-> "json", challenge |-> ch]
\* What aiohttp answers when an exception escapes the handler.
InternalServerError == [status |-> 500, body |-> "error", challenge |-> ""]
NoResponse == [status |-> 0, body |-> "none", challenge |-> ""]

\* self.sn_dup_map[sn] = current
Stamp(map, sn, current) ==
  [k \in DOMAIN map \cup {sn} |-> IF k = sn THEN current ELSE map[k]]

\* Faulty variant: the window test is strict
_is_dup_strict(req, map, current) ==
  IF ~Has(req, "sn") THEN [dup |-> FALSE, map |-> map]
  ELSE IF req.sn \in DOMAIN map /\ current - map[req.sn] < WINDOW
    THEN [dup |-> TRUE, map |-> map]
  ELSE [dup |-> FALSE, map |-> Stamp(map, req.sn, current)]

\* Faulty variant: a known sequence number is a duplicate for ever
_is_dup_no_expiry(req, map, current) ==
  IF ~Has(req, "sn") THEN [dup |-> FALSE, map |-> map]
  ELSE IF req.sn \in DOMAIN map THEN [dup |-> TRUE, map |-> map]
  ELSE [dup |-> FALSE, map |-> Stamp(map, req.sn, current)]

\* Faulty variant: the sequence number is never recorded
_is_dup_no_record(req, map, current) ==
  IF ~Has(req, "sn") THEN [dup |-> FALSE, map |-> map]
  ELSE IF req.sn \in DOMAIN map /\ current - map[req.sn] <= WINDOW
    THEN [dup |-> TRUE, map |-> map]
  ELSE [dup |-> FALSE, map |-> map]

\* Faulty variant: a duplicate refreshes the timestamp of its sequence number
_is_dup_refresh(req, map, current) ==
  IF ~Has(req, "sn") THEN [dup |-> FALSE, map |-> map]
  ELSE IF req.sn \in DOMAIN map /\ current - map[req.sn] <= WINDOW
    THEN [dup |-> TRUE, map |-> Stamp(map, req.sn, current)]
  ELSE [dup |-> FALSE, map |-> Stamp(map, req.sn, current)]

\* WebhookReceiver._is_dup with current = time.time(): the answer and the
\* ledger afterwards.
_is_dup(req, map, current) ==
  \* sn = req.get('sn', None); if sn is None: return False
  IF ~Has(req, "sn") THEN [dup |-> FALSE, map |-> map]
  \* if sn in self.sn_dup_map.keys(): if current - ... <= 600: return True
  ELSE IF req.sn \in DOMAIN map /\ current - map[req.sn] <= WINDOW
    THEN [dup |-> TRUE, map |-> map]
  \* self.sn_dup_map[sn] = current; return False
  ELSE [dup |-> FALSE, map |-> Stamp(map, req.sn, current)]

\* What one run of on_recv does between the body read and its next
\* suspension point or its return.  branch names the statement that ended
\* it; resp is the HTTP answer (NoResponse while suspended in put()); map
\* is the ledger afterwards; dup is what _is_dup answered ("unchecked" when
\* it was not called).
RecvResult(branch, resp, item, map, dup) ==
  [branch |-> branch, resp |-> resp, item |-> item, map |-> map, dup |-> dup]

\* Faulty variant: the token comparison is missing
on_recv_no_verify(data, c, token, map, current, hasQueue, full) ==
  LET dec == Decode(data, c) IN
  IF dec.raised THEN RecvResult("except", Response, NoD, map, "unchecked")
  ELSE LET pkg == dec.pkg IN
    IF pkg.keys = {} THEN RecvResult("empty", Response, NoD, map, "unchecked")
    ELSE IF ~Has(pkg, "d") \/ ~Has(pkg.d, "verify_token")
      THEN RecvResult("raise", InternalServerError, NoD, map, "unchecked")
    ELSE LET r == _is_dup(pkg, map, current) IN
      IF r.dup THEN RecvResult("dup", Response, NoD, r.map, "dup")
      ELSE IF ~Has(pkg, "s")
        THEN RecvResult("raise", InternalServerError, NoD, r.map, "fresh")
      ELSE IF pkg.s # 0
        THEN RecvResult("not_event", Response, NoD, r.map, "fresh")
      ELSE IF ~Has(pkg.d, "type")
        THEN RecvResult("raise", InternalServerError, NoD, r.map, "fresh")
      ELSE IF pkg.d.type = CHALLENGE_TYPE /\ ~Has(pkg.d, "channel_type")
        THEN RecvResult("raise", InternalServerError, NoD, r.map, "fresh")
      ELSE IF pkg.d.type = CHALLENGE_TYPE
              /\ pkg.d.channel_type = "WEBHOOK_CHALLENGE"
        THEN IF ~Has(pkg.d, "challenge")
             THEN RecvResult("raise", InternalServerError, NoD, r.map, "fresh")
             ELSE RecvResult("challenge", json_response(pkg.d.challenge),
                             NoD, r.map, "fresh")
      ELSE IF ~hasQueue
        THEN RecvResult("raise", InternalServerError, NoD, r.map, "fresh")
      ELSE IF full
        THEN RecvResult("await_put", NoResponse, pkg.d, r.map, "fresh")
      ELSE RecvResult("put", Response, pkg.d, r.map, "fresh")

\* Faulty variant: the challenge is recognised by the type tag alone
on_recv_type_only(data, c, token, map, current, hasQueue, full) ==
  LET dec == Decode(data, c) IN
  IF dec.raised THEN RecvResult("except", Response, NoD, map, "unchecked")
  ELSE LET pkg == dec.pkg IN
    IF pkg.keys = {} THEN RecvResult("empty", Response, NoD, map, "unchecked")
    ELSE IF ~Has(pkg, "d") \/ ~Has(pkg.d, "verify_token")
      THEN RecvResult("raise", InternalServerError, NoD, map, "unchecked")
    ELSE IF pkg.d.verify_token # token
      THEN RecvResult("bad_token", Response, NoD, map, "unchecked")
    ELSE LET r == _is_dup(pkg, map, current) IN
      IF r.dup THEN RecvResult("dup", Response, NoD, r.map, "dup")
      ELSE IF ~Has(pkg, "s")
        THEN RecvResult("raise", InternalServerError, NoD, r.map, "fresh")
      ELSE IF pkg.s # 0
        THEN RecvResult("not_event", Response, NoD, r.map, "fresh")
      ELSE IF ~Has(pkg.d, "type")
        THEN RecvResult("raise", InternalServerError, NoD, r.map, "fresh")
      ELSE IF pkg.d.type = CHALLENGE_TYPE
        THEN IF ~Has(pkg.d, "challenge")
             THEN RecvResult("raise", InternalServerError, NoD, r.map, "fresh")
             ELSE RecvResult("challenge", json_response(pkg.d.challenge),
                             NoD, r.map, "fresh")
      ELSE IF ~hasQueue
        THEN RecvResult("raise", InternalServerError, NoD, r.map, "fresh")
      ELSE IF full
        THEN RecvResult("await_put", NoResponse, pkg.d, r.map, "fresh")
      ELSE RecvResult("put", Response, pkg.d, r.map, "fresh")

\* Faulty variant: the dedup check runs before the token comparison, so a
\* delivery with a wrong token takes a slot in the ledger
on_recv_dup_first(data, c, token, map, current, hasQueue, full) ==
  LET dec == Decode(data, c) IN
  IF dec.raised THEN RecvResult("except", Response, NoD, map, "unchecked")
  ELSE LET pkg == dec.pkg IN
    IF pkg.keys = {} THEN RecvResult("empty", Response, NoD, map, "unchecked")
    ELSE LET r == _is_dup(pkg, map, current) IN
      IF r.dup THEN RecvResult("dup", Response, NoD, r.map, "dup")
      ELSE IF ~Has(pkg, "d") \/ ~Has(pkg.d, "verify_token")
        THEN RecvResult("raise", InternalServerError, NoD, r.map, "fresh")
      ELSE IF pkg.d.verify_token # token
        THEN RecvResult("bad_token", Response, NoD, r.map, "fresh")
      \* pkg['s']: KeyError
      ELSE IF ~Has(pkg, "s")
        THEN RecvResult("raise", InternalServerError, NoD, r.map, "fresh")
      ELSE IF pkg.s # 0
        THEN RecvResult("not_event", Response, NoD, r.map, "fresh")
      ELSE IF ~Has(pkg.d, "type")
        THEN RecvResult("raise", InternalServerError, NoD, r.map, "fresh")
      ELSE IF pkg.d.type = CHALLENGE_TYPE /\ ~Has(pkg.d, "channel_type")
        THEN RecvResult("raise", InternalServerError, NoD, r.map, "fresh")
      ELSE IF pkg.d.type = CHALLENGE_TYPE
              /\ pkg.d.channel_type = "WEBHOOK_CHALLENGE"
        THEN IF ~Has(pkg.d, "challenge")
             THEN RecvResult("raise", InternalServerError, NoD, r.map, "fresh")
             ELSE RecvResult("challenge", json_response(pkg.d.challenge),
                             NoD, r.map, "fresh")
      ELSE IF ~hasQueue
        THEN RecvResult("raise", InternalServerError, NoD, r.map, "fresh")
      ELSE IF full
        THEN RecvResult("await_put", NoResponse, pkg.d, r.map, "fresh")
      ELSE RecvResult("put", Response, pkg.d, r.map, "fresh")

\* WebhookReceiver.start.on_recv.  request.read() failing takes the same
\* except clause as a failing decompress or decode.
on_recv(data, c, token, map, current, hasQueue, full) ==
  LET dec == Decode(data, c) IN
  \* except Exception: return web.Response()
  IF dec.raised THEN RecvResult("except", Response, NoD, map, "unchecked")
  ELSE LET pkg == dec.pkg IN
    \* if not pkg: return web.Response()
    IF pkg.keys = {} THEN RecvResult("empty", Response, NoD, map, "unchecked")
    \* pkg['d']['verify_token']: KeyError, outside the try block
    ELSE IF ~Has(pkg, "d") \/ ~Has(pkg.d, "verify_token")
      THEN RecvResult("raise", InternalServerError, NoD, map, "unchecked")
    \* if pkg['d']['verify_token'] != self._cert.verify_token
    ELSE IF pkg.d.verify_token # token
      THEN RecvResult("bad_token", Response, NoD, map, "unchecked")
    ELSE LET r == _is_dup(pkg, map, current) IN
      \* if self._is_dup(pkg): return web.Response()
      IF r.dup THEN RecvResult("dup", Response, NoD, r.map, "dup")
      \* pkg['s']: KeyError
      ELSE IF ~Has(pkg, "s")
        THEN RecvResult("raise", InternalServerError, NoD, r.map, "fresh")
      \* if pkg['s'] == 0: ... ; return web.Response()
      ELSE IF pkg.s # 0
        THEN RecvResult("not_event", Response, NoD, r.map, "fresh")
      \* pkg = pkg['d']; pkg['type']: KeyError
      ELSE IF ~Has(pkg.d, "type")
        THEN RecvResult("raise", InternalServerError, NoD, r.map, "fresh")
      \* `and` evaluates pkg['channel_type'] only when the type is 255
      ELSE IF pkg.d.type = CHALLENGE_TYPE /\ ~Has(pkg.d, "channel_type")
        THEN RecvResult("raise", InternalServerError, NoD, r.map, "fresh")
      ELSE IF pkg.d.type = CHALLENGE_TYPE
              /\ pkg.d.channel_type = "WEBHOOK_CHALLENGE"
        \* return web.json_response({'challenge': pkg['challenge']})
        THEN IF ~Has(pkg.d, "challenge")
             THEN RecvResult("raise", InternalServerError, NoD, r.map, "fresh")
             ELSE RecvResult("challenge", json_response(pkg.d.challenge),
                             NoD, r.map, "fresh")
      \* self.pkg_queue: AttributeError when the owner never set it
      ELSE IF ~hasQueue
        THEN RecvResult("raise", InternalServerError, NoD, r.map, "fresh")
      \* await self.pkg_queue.put(pkg): suspends only on a full queue
      ELSE IF full
        THEN RecvResult("await_put", NoResponse, pkg.d, r.map, "fresh")
      ELSE RecvResult("put", Response, pkg.d, r.map, "fresh")

\* --------------------------------------------------- websocket: discovery
\* Faulty variant: the early return on a non-zero code is missing
discover_no_return(res_json, gateway) ==
  IF res_json.code # 0 THEN [pc |-> "connect", gateway |-> gateway]
  ELSE [pc |-> "connect", gateway |-> res_json.url]

\* Faulty variant: a URL stored by an earlier invocation is reused instead
\* of the one the lookup just returned.
discover_cached(res_json, gateway) ==
  IF res_json.code # 0 THEN [pc |-> "returned", gateway |-> gateway]
  ELSE IF gateway[1] # "" THEN [pc |-> "connect", gateway |-> gateway]
  ELSE [pc |-> "connect", gateway |-> res_json.url]

\* start() after `res_json = await res.json()`: where it goes next and
\* self._RAW_GATEWAY afterwards.
discover(res_json, gateway) ==
  \* if res_json['code'] != 0: log.error(...); return
  IF res_json.code # 0 THEN [pc |-> "returned", gateway |-> gateway]
  \* self._RAW_GATEWAY = res_json['data']['url']
  ELSE [pc |-> "connect", gateway |-> res_json.url]

\* ------------------------------------------------------------------ inputs
\* self._RAW_GATEWAY = '' before the first lookup.
NoGateway == <<"", 0>>
\* The URL the k-th lookup hands out: the gateway puts a fresh token in each.
Gateway(k) == <<"wss://gateway", k>>
\* The answers the k-th lookup can get: success, or a non-zero code.
DiscoveryResponses(k) ==
  {[code |-> 0, url |-> Gateway(k)], [code |-> 1, url |-> NoGateway]}

AllKeys == {"s", "sn", "d"}
Opaque(ex) == MkD({"extra"}, "", 0, "", "", ex)

WsEvent1 == MkPkg(AllKeys, 0, 1, Opaque("e1"))
WsEvent2 == MkPkg(AllKeys, 0, 2, Opaque("e2"))
WsControl == MkPkg(AllKeys, HEARTBEAT_SIGNAL, 3, Opaque("pong"))
WsNoSignal == MkPkg({"sn", "d"}, 0, 3, Opaque("e3"))
WsNoSn == MkPkg({"s", "d"}, 0, 0, Opaque("e3"))
WsNoData == MkPkg({"s", "sn"}, 0, 3, NoD)
WsPkgs == {WsEvent1, WsEvent2, WsControl, WsNoSignal, WsNoSn, WsNoData}

\* Frames a connection opened with compress = c can deliver: the envelopes
\* in the encoding asked for, damaged bytes, and an envelope in the other
\* encoding.
WsFrames(c) == {Wire(p, c) : p \in WsPkgs} \cup {Garbage, Wire(WsEvent1, ~c)}

SECRET == "secret"
EventD(ex) ==
  MkD({"verify_token", "type", "channel_type", "extra"},
      SECRET, 1, "GROUP", "", ex)
ChallengeD(tok) ==
  MkD({"verify_token", "type", "channel_type", "challenge"},
      tok, CHALLENGE_TYPE, "WEBHOOK_CHALLENGE", "abc123", "")

WhEvent1 == MkPkg(AllKeys, 0, 1, EventD("e1"))
WhEvent2 == MkPkg(AllKeys, 0, 2, EventD("e2"))
WhEventNoSn == MkPkg({"s", "d"}, 0, 0, EventD("e3"))
WhNotEvent == MkPkg(AllKeys, 1, 1, EventD("hello"))
WhBadToken == MkPkg(AllKeys, 0, 1, [EventD("e1") EXCEPT !.verify_token = "wrong"])
WhBadTokenBare == MkPkg({"d"}, 0, 0, MkD({"verify_token"}, "wrong", 0, "", "", ""))
WhChallenge == MkPkg(AllKeys, 0, 1, ChallengeD(SECRET))
WhBadChallenge == MkPkg(AllKeys, 0, 1, ChallengeD("wrong"))
WhTagOnly ==
  MkPkg(AllKeys, 0, 1, [EventD("e4") EXCEPT !.type = CHALLENGE_TYPE])
WhNoData == MkPkg({"s", "sn"}, 0, 1, NoD)
WhNoToken == MkPkg(AllKeys, 0, 1, MkD({"type", "channel_type"}, "", 1, "GROUP", "", ""))
WhNoSignal == MkPkg({"sn", "d"}, 0, 1, EventD("e5"))
WhNoType == MkPkg(AllKeys, 0, 1, MkD({"verify_token"}, SECRET, 0, "", "", ""))
WhNoChannel ==
  MkPkg(AllKeys, 0, 1, MkD({"verify_token", "type"}, SECRET, CHALLENGE_TYPE, "", "", ""))
WhNoChallenge ==
  MkPkg(AllKeys, 0, 1,
        MkD({"verify_token", "type", "channel_type"},
            SECRET, CHALLENGE_TYPE, "WEBHOOK_CHALLENGE", "", ""))
WhPkgs ==
  {WhEvent1, WhEvent2, WhEventNoSn, WhNotEvent, WhBadToken, WhBadTokenBare,
   WhChallenge,
   WhBadChallenge, WhTagOnly, WhNoData, WhNoToken, WhNoSignal, WhNoType,
   WhNoChannel, WhNoChallenge, EmptyPkg}

\* Request bodies posted to a receiver constructed with compress = c.
WhBodies(c) == {Wire(p, c) : p \in WhPkgs} \cup {Garbage, Wire(WhEvent1, ~c)}

\* -------------------------------------------------------------------- guild
\* An attribute that is None, or holds the list val.
None == [some |-> FALSE, val |-> <<>>]
Some(v) == [some |-> TRUE, val |-> v]

\* The dict the platform returns for a channel or a category.
RawChannel(id, ty) == [id |-> id, type |-> ty]
\* public_channel_factory(_gate_=self.gate, **i): the Channel object built
\* from a channel dict.
public_channel_factory(i) == [class |-> "Channel", id |-> i.id, type |-> i.type]
\* Role(**i): the Role object built from a role dict.
Role(i) == [class |-> "Role", role_id |-> i.role_id]

RECURSIVE Categories(_)
\* for i in raw_list: if i['type'] == ChannelTypes.CATEGORY: the categories
Categories(raw_list) ==
  IF raw_list = <<>> THEN <<>>
  ELSE LET rest == Categories(Tail(raw_list)) IN
       IF Head(raw_list).type = "CATEGORY" THEN <<Head(raw_list)>> \o rest
       ELSE rest

RECURSIVE ChannelObjects(_)
\* for i in raw_list: else: channel_list.append(public_channel_factory(...))
ChannelObjects(raw_list) ==
  IF raw_list = <<>> THEN <<>>
  ELSE LET rest == ChannelObjects(Tail(raw_list)) IN
       IF Head(raw_list).type = "CATEGORY" THEN rest
       ELSE <<public_channel_factory(Head(raw_list))>> \o rest

RECURSIVE RoleObjects(_)
\* [Role(**i) for i in raw_list]
RoleObjects(raw_list) ==
  IF raw_list = <<>> THEN <<>>
  ELSE <<Role(Head(raw_list))>> \o RoleObjects(Tail(raw_list))

\* Guild._update_fields(**kwargs), as far as the two lists go: each is set
\* to the value kwargs holds for it, or to None when kwargs has no such key.
_update_fields(kwargs) ==
  [_roles |-> IF Has(kwargs, "roles") THEN Some(kwargs.roles) ELSE None,
   _channels |->
     IF Has(kwargs, "channels") THEN Some(kwargs.channels) ELSE None]

\* Guild.fetch_channel_list(force_update) with raw_list the platform's
\* answer, should it be asked: whether it was asked, the attributes
\* afterwards and the value returned.
fetch_channel_list(force_update, chans, cats, raw_list) ==
  IF force_update \/ ~chans.some
  THEN [requested |-> TRUE,
        _channel_categories |-> cats \o Categories(raw_list),
        _channels |-> Some(ChannelObjects(raw_list)),
        ret |-> ChannelObjects(raw_list)]
  ELSE [requested |-> FALSE, _channel_categories |-> cats,
        _channels |-> chans, ret |-> chans.val]

\* Guild.fetch_roles(force_update), likewise.
fetch_roles(force_update, roles, raw_list) ==
  IF force_update \/ ~roles.some
  THEN [requested |-> TRUE, _roles |-> Some(RoleObjects(raw_list))]
  ELSE [requested |-> FALSE, _roles |-> roles]

\* The property Guild.channels: the list, or ValueError.
channels(chans) ==
  IF chans.some THEN [raised |-> FALSE, val |-> chans.val]
  ELSE [raised |-> TRUE, val |-> <<>>]

\* What the platform can answer to a channel list request.
Text1 == RawChannel(1, "TEXT")
Text2 == RawChannel(2, "TEXT")
Category3 == RawChannel(3, "CATEGORY")
RawChannelLists == {<<>>, <<Text1>>, <<Category3, Text1>>, <<Text1, Text2>>}
\* What it can answer to a role list request.
RawRoleLists == {<<>>, <<[role_id |-> 1]>>}
\* The keyword arguments a Guild is built or updated from, as far as the two
\* lists go: a guild dict with or without `roles` and `channels`.
GuildDicts ==
  {[keys |-> ks, roles |-> <<[role_id |-> 1]>>, channels |-> <<Text1>>] :
     ks \in SUBSET {"roles", "channels"}}

\* The record of a completed Guild operation.
Call(op, force, cached, requested) ==
  [op |-> op, force |-> force, cached |-> cached, requested |-> requested]
NoCall == Call("none", FALSE, FALSE, FALSE)

\* ------------------------------------------------------------------- state
VARIABLES
  type,          \* Receiver.type: the transport the owner constructed
  compress,      \* self.compress
  hasQueue,      \* whether the owner has assigned pkg_queue
  pkg_queue,     \* the items in self._queue, oldest first
  ws_pc,         \* where WebsocketReceiver.start() stands
  starts,        \* start() invocations so far; the current one's number
  _NEWEST_SN,    \* self._NEWEST_SN
  _RAW_GATEWAY,  \* self._RAW_GATEWAY
  ws_open,       \* whether the current invocation's socket is open
  heartbeats,    \* the invocations whose heartbeat task is running
  caught,        \* history: the heartbeat task that last caught a failed
                 \* send since start() last returned (0: none)
  pending,       \* the put() the receive loop is suspended in
  runs,          \* history: per invocation, its lookup and its connect
  frames,        \* history: the frames read, with their invocation
  puts,          \* history: the puts made by the receive loop
  beat,          \* history: the last heartbeat message sent, and the
                 \* sequence number of the last event frame read before it
  wh_pc,         \* where WebhookReceiver.start() stands
  sn_dup_map,    \* self.sn_dup_map
  now,           \* the last value time.time() returned
  raced,         \* history: whether a handler has run while another one,
                 \* sent the same sequence number, was suspended
  reading,       \* bodies of the requests suspended in request.read()
  putting,       \* deliveries whose handler is suspended in put()
  deliveries,    \* history: the requests handled, in the order handled
  guild_pc,      \* whether a Guild has been constructed
  _channels,     \* Guild._channels
  _roles,        \* Guild._roles
  _channel_categories,  \* Guild._channel_categories
  _loaded,       \* Guild._loaded
  requests,      \* history: the remote requests the Guild has made
  called,        \* history: the Guild operation that completed last
  fetched        \* history: what the last fetch_channel_list() returned

wsVars == <<ws_pc, starts, _NEWEST_SN, _RAW_GATEWAY, ws_open, heartbeats,
            caught, pending, runs, frames, puts, beat>>
whVars == <<wh_pc, sn_dup_map, now, raced, reading, putting, deliveries>>
cfgVars == <<type, compress, hasQueue>>
guildVars == <<guild_pc, _channels, _roles, _channel_categories, _loaded,
               requests, called, fetched>>
vars == <<cfgVars, pkg_queue, wsVars, whVars, guildVars>>

NoLookup == [code |-> -1, url |-> NoGateway]
NoPending == [idx |-> 0, item |-> NoD]
NoBeat == [sent |-> FALSE, msg |-> HeartbeatMsg(0), last |-> 0]
EmptyMap == [k \in {} |-> 0]

Full == Len(pkg_queue) >= QueueMaxSize

\* No Guild has been constructed.
NoGuild ==
  /\ guild_pc = "none"
  /\ _channels = None
  /\ _roles = None
  /\ _channel_categories = <<>>
  /\ _loaded = FALSE
  /\ requests = 0
  /\ called = NoCall
  /\ fetched = None

\* The receiver's state after construction, before start().
Idle ==
  /\ pkg_queue = <<>>
  /\ ws_pc = "idle"
  /\ starts = 0
  /\ _NEWEST_SN = 0
  /\ _RAW_GATEWAY = NoGateway
  /\ ws_open = FALSE
  /\ heartbeats = {}
  /\ caught = 0
  /\ pending = NoPending
  /\ runs = <<>>
  /\ frames = <<>>
  /\ puts = <<>>
  /\ beat = NoBeat
  /\ wh_pc = "idle"
  /\ sn_dup_map = EmptyMap
  /\ now = 0
  /\ raced = FALSE
  /\ reading = EmptyBag
  /\ putting = {}
  /\ deliveries = <<>>

Init ==
  /\ type \in {"websocket", "webhook"}
  /\ compress \in BOOLEAN
  /\ hasQueue \in BOOLEAN
  /\ Idle
  /\ NoGuild

\* ------------------------------------------------------- websocket actions
NewRun ==
  [lookup |-> NoLookup, connect |-> NoGateway, heartbeat |-> FALSE,
   lookups |-> 0, connects |-> 0]

\* The owner calls start(): the session is opened and the gateway lookup
\* is sent.
WsStart ==
  /\ type = "websocket"
  /\ ws_pc \in {"idle", "returned", "raised"}
  /\ starts < MaxStarts
  /\ starts' = starts + 1
  /\ runs' = Append(runs, NewRun)
  /\ ws_pc' = "discover"
  /\ caught' = 0
  /\ UNCHANGED <<cfgVars, guildVars, pkg_queue, whVars, _NEWEST_SN,
                 _RAW_GATEWAY, ws_open, heartbeats, pending, frames, puts,
                 beat>>

\* The lookup is answered.
WsDiscover(res_json) ==
  /\ ws_pc = "discover"
  /\ LET r == discover(res_json, _RAW_GATEWAY) IN
       /\ ws_pc' = r.pc
       /\ _RAW_GATEWAY' = r.gateway
  /\ runs' = [runs EXCEPT ![starts].lookup = res_json,
                          ![starts].lookups = @ + 1]
  /\ UNCHANGED <<cfgVars, guildVars, pkg_queue, whVars, starts, _NEWEST_SN,
                 ws_open, heartbeats, pending, frames, puts, beat, caught>>

\* The lookup fails in the HTTP layer: the exception leaves start().
WsDiscoverError ==
  /\ ws_pc = "discover"
  /\ ws_pc' = "raised"
  /\ runs' = [runs EXCEPT ![starts].lookups = @ + 1]
  /\ UNCHANGED <<cfgVars, guildVars, pkg_queue, whVars, starts, _NEWEST_SN,
                 _RAW_GATEWAY, ws_open, heartbeats, pending, frames, puts,
                 beat, caught>>

\* cs.ws_connect(self._RAW_GATEWAY) succeeds and the heartbeat task is
\* launched.
WsConnect ==
  /\ ws_pc = "connect"
  /\ runs' = [runs EXCEPT ![starts].connect = _RAW_GATEWAY,
                          ![starts].connects = @ + 1,
                          ![starts].heartbeat = TRUE]
  /\ heartbeats' = heartbeats \cup {starts}
  /\ ws_open' = TRUE
  /\ ws_pc' = "recv"
  /\ UNCHANGED <<cfgVars, guildVars, pkg_queue, whVars, starts, _NEWEST_SN,
                 _RAW_GATEWAY, pending, frames, puts, beat, caught>>

\* cs.ws_connect(self._RAW_GATEWAY) fails: the exception leaves start().
WsConnectError ==
  /\ ws_pc = "connect"
  /\ runs' = [runs EXCEPT ![starts].connect = _RAW_GATEWAY,
                          ![starts].connects = @ + 1]
  /\ ws_pc' = "raised"
  /\ UNCHANGED <<cfgVars, guildVars, pkg_queue, whVars, starts, _NEWEST_SN,
                 _RAW_GATEWAY, ws_open, heartbeats, pending, frames, puts,
                 beat, caught>>

\* A frame is read and the loop body runs to its next suspension point.
WsRecv(raw) ==
  /\ ws_pc = "recv"
  /\ ws_open
  /\ Len(frames) < MaxFrames
  /\ frames' = Append(frames, [conn |-> starts, raw |-> raw])
  /\ LET r == recv_loop_body(raw, compress, _NEWEST_SN, hasQueue, Full)
         put == [idx |-> Len(frames) + 1, item |-> r.item]
     IN
       /\ _NEWEST_SN' = r.sn
       /\ ws_pc' = r.pc
       /\ pkg_queue' =
            IF r.branch = "put" THEN Append(pkg_queue, r.item) ELSE pkg_queue
       /\ puts' = IF r.branch = "put" THEN Append(puts, put) ELSE puts
       /\ pending' = IF r.branch = "await_put" THEN put ELSE pending
  /\ UNCHANGED <<cfgVars, guildVars, whVars, starts, _RAW_GATEWAY, ws_open,
                 heartbeats, runs, beat, caught>>

\* The queue has room again: the suspended put() completes and the loop
\* goes on to read the next frame.
WsPut ==
  /\ ws_pc = "put"
  /\ ~Full
  /\ pkg_queue' = Append(pkg_queue, pending.item)
  /\ puts' = Append(puts, pending)
  /\ pending' = NoPending
  /\ ws_pc' = "recv"
  /\ UNCHANGED <<cfgVars, guildVars, whVars, starts, _NEWEST_SN, _RAW_GATEWAY,
                 ws_open, heartbeats, runs, frames, beat, caught>>

\* The socket closes.
WsClose ==
  /\ ws_pc \in {"recv", "put"}
  /\ ws_open
  /\ ws_open' = FALSE
  /\ UNCHANGED <<cfgVars, guildVars, pkg_queue, whVars, ws_pc, starts,
                 _NEWEST_SN, _RAW_GATEWAY, heartbeats, pending, runs, frames,
                 puts, beat, caught>>

\* A faulty variant: start() wraps its body in a reconnect loop, so that the
\* end of the receive loop leads back to the gateway lookup.
after_recv_loop_reconnect == "discover"

\* Where start() goes when `async for` ends: the two `async with` blocks
\* are left and the coroutine returns.
after_recv_loop == "returned"

\* `async for` ends on the closed socket and start() returns.
WsLoopExit ==
  /\ ws_pc = "recv"
  /\ ~ws_open
  /\ ws_pc' = after_recv_loop
  /\ UNCHANGED <<cfgVars, guildVars, pkg_queue, whVars, starts, _NEWEST_SN,
                 _RAW_GATEWAY, ws_open, heartbeats, pending, runs, frames,
                 puts, beat, caught>>

\* The sequence number of the most recent signal-0 envelope among the
\* frames read so far (0 when there is none), read off the frames
\* themselves.
IsEventFrame(f, c) ==
  LET dec == Decode(f.raw, c) IN
  ~dec.raised /\ Has(dec.pkg, "s") /\ dec.pkg.s = 0 /\ Has(dec.pkg, "sn")

RECURSIVE LastEventSn(_, _)
LastEventSn(log, c) ==
  IF log = <<>> THEN 0
  ELSE IF IsEventFrame(log[Len(log)], c)
    THEN Decode(log[Len(log)].raw, c).pkg.sn
  ELSE LastEventSn(SubSeq(log, 1, Len(log) - 1), c)

\* One turn of the loop of heartbeat(ws_conn): the sleep, then send_json
\* on the connection the task was given.  On a connection that is no longer
\* open send_json raises; `except Exception` catches it inside `while True`,
\* so the task goes round again.  `alive` tells whether the task is still
\* running after the turn.
Turn(alive, sent, raised, newest) ==
  [alive |-> alive, sent |-> sent, raised |-> raised,
   msg |-> HeartbeatMsg(newest)]

\* A faulty variant: the try block encloses the loop, so the first failed
\* send ends the task.
heartbeat_try_outside(open, newest) ==
  Turn(open, open, ~open, newest)

heartbeat(open, newest) ==
  Turn(TRUE, open, ~open, newest)

\* Whether invocation c of start() is over.
Returned(c) == c < starts \/ ws_pc \in {"returned", "raised"}

\* The heartbeat task of invocation c wakes from its sleep and sends on
\* the connection of invocation c.
Heartbeat(c) ==
  /\ c \in heartbeats
  /\ LET r == heartbeat(c = starts /\ ws_open, _NEWEST_SN) IN
       /\ heartbeats' = IF r.alive THEN heartbeats ELSE heartbeats \ {c}
       /\ caught' = IF r.raised /\ r.alive /\ ws_pc = "returned" THEN c
                    ELSE caught
       /\ beat' = IF r.sent
                  THEN [sent |-> TRUE, msg |-> r.msg,
                        last |-> LastEventSn(frames, compress)]
                  ELSE beat
  /\ UNCHANGED <<cfgVars, guildVars, pkg_queue, whVars, ws_pc, starts,
                 _NEWEST_SN, _RAW_GATEWAY, ws_open, pending, runs, frames,
                 puts>>

\* --------------------------------------------------------- webhook actions
\* The owner calls start(): the route is registered and the site listens.
WhStart ==
  /\ type = "webhook"
  /\ wh_pc = "idle"
  /\ wh_pc' = "serving"
  /\ UNCHANGED <<cfgVars, guildVars, pkg_queue, wsVars, sn_dup_map, now,
                 raced, reading, putting, deliveries>>

\* A request arrives: a handler starts and suspends in request.read().
WhArrive(data) ==
  /\ wh_pc = "serving"
  /\ Len(deliveries) + BagCardinality(reading) < MaxDeliveries
  /\ BagCardinality(reading) + Cardinality(putting) < MaxHandlers
  /\ reading' = reading (+) SetToBag({data})
  /\ UNCHANGED <<cfgVars, guildVars, pkg_queue, wsVars, wh_pc, sn_dup_map,
                 now, raced, putting, deliveries>>

\* The sequence number the sender wrote into a body, 0 when it wrote none.
SentSn(data) == IF Has(data.pkg, "sn") THEN data.pkg.sn ELSE 0

\* Whether a handler other than the one about to run on data is suspended,
\* in request.read() or in put(), on a body sent with the same sequence
\* number.
Overlaps(data) ==
  /\ SentSn(data) # 0
  /\ \/ \E d \in BagToSet(reading (-) SetToBag({data})) :
          SentSn(d) = SentSn(data)
     \/ \E i \in putting : SentSn(deliveries[i].data) = SentSn(data)

Delivery(data, t, r) ==
  [data |-> data, t |-> t, branch |-> r.branch, resp |-> r.resp,
   dup |-> r.dup, item |-> r.item]

\* A handler's body read completes and it runs to its return or to a put()
\* on a full queue; time.time() answers t.
WhRecv(data, t) ==
  /\ BagIn(data, reading)
  /\ t >= now
  /\ reading' = reading (-) SetToBag({data})
  /\ now' = t
  /\ raced' = (raced \/ Overlaps(data))
  /\ LET r == on_recv(data, compress, SECRET, sn_dup_map, t, hasQueue, Full)
     IN
       /\ sn_dup_map' = r.map
       /\ deliveries' = Append(deliveries, Delivery(data, t, r))
       /\ pkg_queue' =
            IF r.branch = "put" THEN Append(pkg_queue, r.item) ELSE pkg_queue
       /\ putting' = IF r.branch = "await_put"
                     THEN putting \cup {Len(deliveries) + 1} ELSE putting
  /\ UNCHANGED <<cfgVars, guildVars, wsVars, wh_pc>>

\* The queue has room again: a suspended put() completes and the handler
\* returns web.Response().
WhPut(i) ==
  /\ i \in putting
  /\ ~Full
  /\ pkg_queue' = Append(pkg_queue, deliveries[i].item)
  /\ deliveries' = [deliveries EXCEPT ![i].branch = "put",
                                      ![i].resp = Response]
  /\ putting' = putting \ {i}
  /\ UNCHANGED <<cfgVars, guildVars, wsVars, wh_pc, sn_dup_map, now, raced,
                 reading>>

\* ---------------------------------------------------------------- consumer
\* The owner's dispatcher takes the oldest item.
Consume ==
  /\ pkg_queue # <<>>
  /\ pkg_queue' = Tail(pkg_queue)
  /\ UNCHANGED <<cfgVars, guildVars, wsVars, whVars>>

Next ==
  \/ WsStart
  \/ \E res_json \in DiscoveryResponses(starts) : WsDiscover(res_json)
  \/ WsDiscoverError
  \/ WsConnect
  \/ WsConnectError
  \/ \E raw \in WsFrames(compress) : WsRecv(raw)
  \/ WsPut
  \/ WsClose
  \/ WsLoopExit
  \/ \E c \in 1..MaxStarts : Heartbeat(c)
  \/ WhStart
  \/ \E data \in WhBodies(compress) : WhArrive(data)
  \/ \E data \in WhBodies(compress), t \in Instants : WhRecv(data, t)
  \/ \E i \in 1..MaxDeliveries : WhPut(i)
  \/ Consume

Spec == Init /\ [][Next]_vars

\* ------------------------------------------------------------ guild actions
\* Guild(**kwargs): the object after __init__.
GuildNew(kwargs) ==
  /\ guild_pc = "none"
  /\ guild_pc' = "built"
  /\ _channel_categories' = <<>>
  /\ _loaded' = FALSE
  /\ _roles' = _update_fields(kwargs)._roles
  /\ _channels' = _update_fields(kwargs)._channels
  /\ called' = Call("__init__", FALSE, FALSE, FALSE)
  /\ UNCHANGED <<cfgVars, pkg_queue, wsVars, whVars, requests, fetched>>

\* await guild.load(), the platform answering the view request with res.
GuildLoad(res) ==
  /\ guild_pc = "built"
  /\ requests < MaxRequests
  /\ requests' = requests + 1
  /\ _roles' = _update_fields(res)._roles
  /\ _channels' = _update_fields(res)._channels
  /\ _loaded' = TRUE
  /\ called' = Call("load", FALSE, _channels.some, TRUE)
  /\ UNCHANGED <<cfgVars, pkg_queue, wsVars, whVars, guild_pc,
                 _channel_categories, fetched>>

\* await guild.fetch_channel_list(force_update), the platform answering the
\* list request, if one is made, with raw_list.
GuildFetchChannelList(force_update, raw_list) ==
  /\ guild_pc = "built"
  /\ LET r == fetch_channel_list(force_update, _channels,
                                 _channel_categories, raw_list)
     IN
       /\ r.requested => requests < MaxRequests
       /\ requests' = IF r.requested THEN requests + 1 ELSE requests
       /\ _channels' = r._channels
       /\ _channel_categories' = r._channel_categories
       /\ fetched' = Some(r.ret)
       /\ called' = Call("fetch_channel_list", force_update,
                         _channels.some, r.requested)
  /\ UNCHANGED <<cfgVars, pkg_queue, wsVars, whVars, guild_pc, _roles,
                 _loaded>>

\* await guild.fetch_roles(force_update), likewise.
GuildFetchRoles(force_update, raw_list) ==
  /\ guild_pc = "built"
  /\ LET r == fetch_roles(force_update, _roles, raw_list) IN
       /\ r.requested => requests < MaxRequests
       /\ requests' = IF r.requested THEN requests + 1 ELSE requests
       /\ _roles' = r._roles
       /\ called' = Call("fetch_roles", force_update, _roles.some, r.requested)
  /\ UNCHANGED <<cfgVars, pkg_queue, wsVars, whVars, guild_pc, _channels,
                 _channel_categories, _loaded, fetched>>

\* The guild world: no receiver runs, a Guild is built and used.
InitGuild ==
  /\ type = "none"
  /\ compress = FALSE
  /\ hasQueue = FALSE
  /\ Idle
  /\ NoGuild

NextGuild ==
  \/ \E kwargs \in GuildDicts : GuildNew(kwargs)
  \/ \E res \in GuildDicts : GuildLoad(res)
  \/ \E force_update \in BOOLEAN, raw_list \in RawChannelLists :
       GuildFetchChannelList(force_update, raw_list)
  \/ \E force_update \in BOOLEAN, raw_list \in RawRoleLists :
       GuildFetchRoles(force_update, raw_list)

SpecGuild == InitGuild /\ [][NextGuild]_vars

\* ==================================================================
\* Properties
\* ==================================================================
\* Reading the histories: what a frame or a request body holds, decoded the
\* way the receiver was configured.
Decodes(raw) == ~Decode(raw, compress).raised
PkgOf(raw) == Decode(raw, compress).pkg

\* raw holds an envelope with s == 0 and a `d`.
IsSignal0(raw) ==
  /\ Decodes(raw)
  /\ Has(PkgOf(raw), "s") /\ PkgOf(raw).s = 0
  /\ Has(PkgOf(raw), "d")

\* raw holds a complete event envelope {s: 0, sn, d}.
IsEvent(raw) == IsSignal0(raw) /\ Has(PkgOf(raw), "sn")

\* raw holds an envelope with a signal other than 0.
IsControl(raw) ==
  Decodes(raw) /\ Has(PkgOf(raw), "s") /\ PkgOf(raw).s # 0

\* A delivery whose handler called put(): done, or suspended on a full queue.
Handed(e) == e.branch \in {"put", "await_put"}

\* C1: in every reachable state of either receiver, every item on the
\* queue was put for an envelope received with s == 0 and is that
\* envelope's `d`; no frame or delivery with s != 0 causes a put.
C1_OnlySignal0Queued ==
  /\ \A k \in 1..Len(puts) :
       /\ puts[k].idx \in 1..Len(frames)
       /\ IsSignal0(frames[puts[k].idx].raw)
       /\ puts[k].item = PkgOf(frames[puts[k].idx].raw).d
  /\ \A i \in 1..Len(deliveries) :
       Handed(deliveries[i]) =>
         /\ IsSignal0(deliveries[i].data)
         /\ deliveries[i].item = PkgOf(deliveries[i].data).d
  /\ \A q \in 1..Len(pkg_queue) :
       \/ \E k \in 1..Len(puts) : puts[k].item = pkg_queue[q]
       \/ \E i \in 1..Len(deliveries) :
            deliveries[i].branch = "put" /\ deliveries[i].item = pkg_queue[q]

\* C1 witness: a control frame was read after an event frame, and the
\* queue holds the event alone.
C1_Witness ==
  /\ Len(frames) = 2
  /\ IsEvent(frames[1].raw)
  /\ IsControl(frames[2].raw)
  /\ pkg_queue = <<PkgOf(frames[1].raw).d>>

\* The frames of invocation c, and the puts made for them.
FramesOf(c) == SelectSeq(frames, LAMBDA f : f.conn = c)
PutsOf(c) == SelectSeq(puts, LAMBDA p : frames[p.idx].conn = c)

RECURSIVE EventData(_)
\* The `d` fields of the event envelopes of a frame log, in arrival order.
EventData(log) ==
  IF log = <<>> THEN <<>>
  ELSE LET rest == EventData(SubSeq(log, 1, Len(log) - 1))
           f == log[Len(log)]
       IN IF IsEvent(f.raw) THEN Append(rest, PkgOf(f.raw).d) ELSE rest

RECURSIVE Items(_)
Items(ps) ==
  IF ps = <<>> THEN <<>>
  ELSE Append(Items(SubSeq(ps, 1, Len(ps) - 1)), ps[Len(ps)].item)

\* The item of the put() invocation c is suspended in, if any.
Awaited(c) ==
  IF pending.idx # 0 /\ frames[pending.idx].conn = c
  THEN <<pending.item>> ELSE <<>>

\* C2: on a receiver whose queue is set, for every connection the items
\* put on the queue, followed by the one a suspended put() still holds,
\* are exactly the `d` fields of the event envelopes {s: 0, sn, d} read on
\* that connection, in the order read: nothing reordered, duplicated or
\* omitted, also across a put() that suspends on a full queue.
C2_PutsInArrivalOrder ==
  hasQueue =>
    \A c \in 1..starts :
      Items(PutsOf(c)) \o Awaited(c) = EventData(FramesOf(c))

\* C2 witness: two different events of one connection have both been put,
\* in the order read.
C2_Witness ==
  /\ Len(frames) = 2 /\ Len(puts) = 2
  /\ frames[1].conn = frames[2].conn
  /\ puts[1].item # puts[2].item
  /\ puts[1].idx = 1 /\ puts[2].idx = 2

\* ------------------------------------------------------ webhook deliveries
\* The inner verify_token is there and is the configured secret.
TokenOk(raw) ==
  /\ Decodes(raw)
  /\ Has(PkgOf(raw), "d") /\ Has(PkgOf(raw).d, "verify_token")
  /\ PkgOf(raw).d.verify_token = SECRET

\* The inner verify_token is there and is not the configured secret.
TokenWrong(raw) ==
  /\ Decodes(raw)
  /\ Has(PkgOf(raw), "d") /\ Has(PkgOf(raw).d, "verify_token")
  /\ PkgOf(raw).d.verify_token # SECRET

BearsSn(raw, n) ==
  Decodes(raw) /\ Has(PkgOf(raw), "sn") /\ PkgOf(raw).sn = n

\* A challenge handshake: signal 0, type 255, channel type WEBHOOK_CHALLENGE.
IsChallenge(raw) ==
  /\ IsSignal0(raw)
  /\ Has(PkgOf(raw).d, "type") /\ PkgOf(raw).d.type = 255
  /\ Has(PkgOf(raw).d, "channel_type")
  /\ PkgOf(raw).d.channel_type = "WEBHOOK_CHALLENGE"

\* An event delivery: signal 0, the right token, and an inner payload
\* carrying the type tag (and, with tag 255, a channel type) that says it
\* is no challenge.
IsEventDelivery(raw) ==
  /\ IsSignal0(raw)
  /\ TokenOk(raw)
  /\ Has(PkgOf(raw).d, "type")
  /\ PkgOf(raw).d.type = 255 => Has(PkgOf(raw).d, "channel_type")
  /\ ~IsChallenge(raw)

\* Deliveries i < j are event deliveries bearing the same sequence number
\* n, and no delivery with the right token bore n before i.
SameEventTwice(i, j, n) ==
  /\ i < j
  /\ IsEventDelivery(deliveries[i].data) /\ BearsSn(deliveries[i].data, n)
  /\ IsEventDelivery(deliveries[j].data) /\ BearsSn(deliveries[j].data, n)
  /\ \A k \in 1..(i - 1) :
       ~(TokenOk(deliveries[k].data) /\ BearsSn(deliveries[k].data, n))

\* No delivery with the right token bears n strictly between i and j.
NoneBetween(i, j, n) ==
  \A k \in (i + 1)..(j - 1) :
    ~(TokenOk(deliveries[k].data) /\ BearsSn(deliveries[k].data, n))

Indexes == 1..Len(deliveries)
Sns == {1, 2}

\* C3: dedup idempotence.  With the queue set, when an event delivery
\* bearing sequence n is followed within 600 seconds by a second event
\* delivery bearing n, the first is handed to the queue and the second is
\* not, and the second is answered with the empty response: exactly one
\* of the two reaches the queue.
C3_DuplicateWithinWindowDropped ==
  hasQueue =>
    \A i \in Indexes, j \in Indexes, n \in Sns :
      (SameEventTwice(i, j, n) /\ deliveries[j].t - deliveries[i].t <= 600)
        => /\ Handed(deliveries[i])
           /\ ~Handed(deliveries[j])
           /\ deliveries[j].resp = [status |-> 200, body |-> "empty", challenge |-> ""]

\* C3 witness: the same event was delivered twice, the second time exactly
\* 600 seconds after the first; the first is on the queue, the second was
\* answered.
C3_Witness ==
  /\ hasQueue
  /\ Len(deliveries) = 2
  /\ SameEventTwice(1, 2, 1)
  /\ deliveries[1].data = deliveries[2].data
  /\ deliveries[2].t - deliveries[1].t = 600
  /\ pkg_queue = <<deliveries[1].item>>
  /\ deliveries[2].resp.status = 200

\* C4: dedup expiry.  With the queue set, when an event delivery bearing
\* sequence n is followed by a second one bearing n, with no delivery
\* bearing n between them: if more than 600 seconds lie between the two,
\* both are handed to the queue; if exactly 600 seconds lie between them,
\* the second is still dropped as a duplicate.
C4_DuplicateAfterWindowAccepted ==
  hasQueue =>
    \A i \in Indexes, j \in Indexes, n \in Sns :
      (SameEventTwice(i, j, n) /\ NoneBetween(i, j, n)) =>
        /\ deliveries[j].t - deliveries[i].t > 600
             => Handed(deliveries[i]) /\ Handed(deliveries[j])
        /\ deliveries[j].t - deliveries[i].t = 600
             => deliveries[j].branch = "dup"

\* C4 witness: the same event was delivered twice, 601 seconds apart, and
\* both deliveries were put on the queue.
C4_Witness ==
  /\ hasQueue
  /\ Len(deliveries) = 2
  /\ SameEventTwice(1, 2, 1)
  /\ deliveries[1].data = deliveries[2].data
  /\ deliveries[2].t - deliveries[1].t = 601
  /\ deliveries[1].branch = "put" /\ deliveries[2].branch = "put"

\* C5: token verification.  A delivery whose inner verify_token is not the
\* configured secret is never handed to the queue, whatever the rest of
\* it holds, and is answered 200 with an empty body; so no item on the
\* queue carries a wrong token.
C5_WrongTokenNeverQueued ==
  /\ \A i \in Indexes :
       TokenWrong(deliveries[i].data) =>
         /\ ~Handed(deliveries[i])
         /\ deliveries[i].resp = [status |-> 200, body |-> "empty", challenge |-> ""]
  /\ \A q \in 1..Len(pkg_queue) :
       Has(pkg_queue[q], "verify_token") => pkg_queue[q].verify_token = SECRET

\* C5 witness: an otherwise valid event and an otherwise valid challenge,
\* both with a wrong token, have been handled.
C5_Witness ==
  /\ Len(deliveries) = 2
  /\ \E i \in Indexes : PkgOf(deliveries[i].data) = WhBadToken
  /\ \E i \in Indexes : PkgOf(deliveries[i].data) = WhBadChallenge

\* C6: challenge handshake.  With the queue set, among the signal-0
\* deliveries that passed the token and the dedup check: a challenge
\* (type 255, channel type WEBHOOK_CHALLENGE) carrying value c is answered
\* {"challenge": c} and is not handed to the queue; every event delivery
\* (also one with type 255 and another channel type) is handed to the
\* queue and answered with the empty response once its put() is done.
C6_ChallengeEchoedEventsQueued ==
  hasQueue =>
    \A i \in Indexes :
      LET e == deliveries[i] IN
      (TokenOk(e.data) /\ e.dup = "fresh" /\ IsSignal0(e.data)) =>
        /\ (IsChallenge(e.data) /\ Has(PkgOf(e.data).d, "challenge")) =>
             /\ e.resp = [status |-> 200, body |-> "json",
                          challenge |-> PkgOf(e.data).d.challenge]
             /\ ~Handed(e)
        /\ IsEventDelivery(e.data) =>
             \/ /\ e.branch = "put"
                /\ e.resp = [status |-> 200, body |-> "empty", challenge |-> ""]
             \/ /\ e.branch = "await_put"
                /\ i \in putting

\* C6 witness: a challenge was answered with its value and nothing was
\* queued for it, and a delivery with type 255 and another channel type
\* was put on the queue.
C6_Witness ==
  /\ Len(deliveries) = 2
  /\ PkgOf(deliveries[1].data) = WhChallenge
  /\ deliveries[1].resp.body = "json"
  /\ deliveries[1].resp.challenge = "abc123"
  /\ PkgOf(deliveries[2].data) = WhTagOnly
  /\ deliveries[2].t > deliveries[1].t + 600
  /\ pkg_queue = <<WhTagOnly.d>>

\* ------------------------------------------------- websocket: heartbeat etc.
\* C7: heartbeat content.  Every heartbeat message sent is {s: 2, sn: L}
\* with L the sequence number of the most recent signal-0 envelope the
\* receive loop had read before the send, 0 if there was none; and
\* _NEWEST_SN is always that number, so frames with another signal (and
\* frames that do not decode) never change it.
C7_HeartbeatCarriesLastEventSn ==
  /\ beat.sent => beat.msg = [s |-> 2, sn |-> beat.last]
  /\ _NEWEST_SN = LastEventSn(frames, compress)

\* C7 witness: an event frame and then a control frame with another
\* sequence number were read, and the last heartbeat sent carries the
\* event's sequence number.
C7_Witness ==
  /\ Len(frames) = 2
  /\ IsEvent(frames[1].raw)
  /\ IsControl(frames[2].raw)
  /\ PkgOf(frames[2].raw).sn # PkgOf(frames[1].raw).sn
  /\ beat.sent
  /\ beat.msg.sn = PkgOf(frames[1].raw).sn
  /\ _NEWEST_SN = beat.msg.sn

\* Invocation k's lookup was answered with a non-zero code.
LookupFailed(k) == runs[k].lookup.code \notin {-1, 0}

\* C8: discovery failure.  An invocation of start() whose lookup is
\* answered with a non-zero code returns without attempting a connect,
\* without launching a heartbeat task, and without reading a frame or
\* putting anything on the queue.
C8_FailedLookupReturns ==
  \A k \in 1..Len(runs) :
    LookupFailed(k) =>
      /\ runs[k].connect = NoGateway
      /\ ~runs[k].heartbeat /\ k \notin heartbeats
      /\ \A i \in 1..Len(frames) : frames[i].conn # k
      /\ PutsOf(k) = <<>>
      /\ k = starts => ws_pc = "returned" /\ ~ws_open

\* C8 witness: a first invocation connected, and a second one got code 1
\* and has returned, with the first one's URL still stored.
C8_Witness ==
  /\ Len(runs) = 2
  /\ runs[1].connect # NoGateway
  /\ runs[2].lookup.code = 1
  /\ _RAW_GATEWAY = runs[1].connect
  /\ ws_pc = "returned"

\* C9 (as claimed): with the queue set, every request that has been
\* answered got 200 with an empty body, or, for a challenge handshake,
\* {"challenge": <value>}.
C9_EveryRequestAnswered200 ==
  hasQueue =>
    \A i \in Indexes :
      LET e == deliveries[i] IN
      \/ e.resp = [status |-> 0, body |-> "none", challenge |-> ""]
      \/ e.resp = [status |-> 200, body |-> "empty", challenge |-> ""]
      \/ /\ IsChallenge(e.data) /\ Has(PkgOf(e.data).d, "challenge")
         /\ e.resp = [status |-> 200, body |-> "json",
                      challenge |-> PkgOf(e.data).d.challenge]

\* The processing of frame f hits an error: it does not decode, or lacks
\* `s`, or is a signal-0 frame lacking `sn` or `d`.
FrameErrors(raw) ==
  \/ ~Decodes(raw)
  \/ ~Has(PkgOf(raw), "s")
  \/ /\ PkgOf(raw).s = 0
     /\ ~(Has(PkgOf(raw), "sn") /\ Has(PkgOf(raw), "d"))

\* C10: error containment in the receive loop.  No frame makes start()
\* raise (start() raises only before it has read a frame), and, with the
\* queue set, every event envelope read after an erroring frame of the
\* same connection is put on the queue, or is the one the loop's
\* suspended put() holds.
C10_FrameErrorsContained ==
  /\ ws_pc = "raised" => \A i \in 1..Len(frames) : frames[i].conn # starts
  /\ hasQueue =>
       \A i \in 1..Len(frames), j \in 1..Len(frames) :
         (/\ i < j
          /\ frames[i].conn = frames[j].conn
          /\ FrameErrors(frames[i].raw)
          /\ IsEvent(frames[j].raw))
           => \/ \E k \in 1..Len(puts) :
                   puts[k] = [idx |-> j, item |-> PkgOf(frames[j].raw).d]
              \/ pending = [idx |-> j, item |-> PkgOf(frames[j].raw).d]

\* C10 witness: a frame that does not decode was followed on the same
\* connection by an event, and the event is on the queue.
C10_Witness ==
  /\ Len(frames) = 2
  /\ frames[1].conn = frames[2].conn
  /\ ~Decodes(frames[1].raw)
  /\ IsEvent(frames[2].raw)
  /\ pkg_queue = <<PkgOf(frames[2].raw).d>>

\* C11: once launched, the heartbeat task never terminates on its own: the
\* task of every invocation that launched one is still running, and its
\* next send attempt is still to come, in every later state, whether or
\* not its sends have failed, its connection's receive loop has exited or
\* start() has returned; every send error was caught by a task that is
\* still running.
C11_HeartbeatNeverTerminates ==
  /\ \A k \in 1..Len(runs):
       runs[k].heartbeat => k \in heartbeats /\ ENABLED Heartbeat(k)
  /\ caught # 0 => caught \in heartbeats

\* Two invocations have returned; the task of the first has since caught a
\* failed send on its long-closed connection and is still running, as is
\* the task of the second.
C11_Witness ==
  /\ ws_pc = "returned"
  /\ starts = 2
  /\ caught = 1
  /\ heartbeats = {1, 2}
  /\ ENABLED Heartbeat(1)

\* Invocation k made at most one gateway lookup and at most one connect.
OneLookupOneConnect(k) == runs[k].lookups <= 1 /\ runs[k].connects <= 1

\* Whether the socket of the current invocation has been connected and has
\* closed since.
SocketClosed == starts > 0 /\ runs[starts].connects > 0 /\ ~ws_open

\* C12 as stated: an invocation makes at most one lookup and at most one
\* connect, and from the moment its socket is closed it makes no further
\* lookup, connect or queue put.
C12_NothingAfterSocketClose ==
  /\ [](\A k \in 1..Len(runs) : OneLookupOneConnect(k))
  /\ [][SocketClosed /\ starts' = starts
          => runs'[starts] = runs[starts] /\ puts' = puts]_vars

\* C12: start() does not restart itself: an invocation makes at most one
\* lookup and at most one connect, and once its receive loop has exited and
\* start() has returned it makes no further lookup, connect or queue put and
\* reads no further frame; a put() that was suspended on a full queue when
\* the socket closed still completes before the loop exits.
C12_StartRunsOnce ==
  /\ [](\A k \in 1..Len(runs) : OneLookupOneConnect(k))
  /\ [][\A k \in 1..Len(runs) :
          Returned(k) => /\ runs'[k] = runs[k]
                         /\ PutsOf(k)' = PutsOf(k)
                         /\ FramesOf(k)' = FramesOf(k)
                         /\ Awaited(k)' = <<>>]_vars

\* Two invocations have run one after the other: each made one lookup and
\* one connect, the first put an event, and the second has returned.
C12_Witness ==
  /\ starts = 2
  /\ runs[1].lookups = 1 /\ runs[1].connects = 1
  /\ PutsOf(1) # <<>>
  /\ runs[2].lookups = 1 /\ runs[2].connects = 1
  /\ ws_pc = "returned"

\* C13: every invocation of start() that attempts a connect does so after
\* its own lookup was answered with code 0, and with the URL of that
\* answer: never with a URL an earlier invocation stored or was handed; an
\* invocation whose lookup fails attempts no connect, whatever URL is
\* stored.
C13_ConnectsToOwnLookup ==
  \A k \in 1..Len(runs) :
    /\ runs[k].connects > 0 =>
         /\ runs[k].lookup.code = 0
         /\ runs[k].connect = runs[k].lookup.url
         /\ \A j \in 1..(k - 1) :
              /\ runs[k].connect # runs[j].connect
              /\ runs[k].connect # runs[j].lookup.url
    /\ LookupFailed(k) => runs[k].connects = 0

\* Two invocations each connected, the second to the URL its own lookup
\* returned while the first one's URL was the one stored when it started.
C13_Witness ==
  /\ Len(runs) = 2
  /\ runs[1].connects = 1 /\ runs[1].connect = Gateway(1)
  /\ runs[2].connects = 1 /\ runs[2].connect = Gateway(2)
  /\ _RAW_GATEWAY = Gateway(2)

\* The same bytes as the platform sends them to a receiver configured the
\* other way: the deflate stream of a plain text, the plain text of a
\* deflate stream.
Recode(raw) ==
  IF raw.enc = "deflate" THEN Plain(raw.pkg)
  ELSE IF raw.enc = "plain" THEN Deflate(raw.pkg)
  ELSE raw

\* A websocket receiver configured with compress = c, fed the frames of log
\* recoded for it, its consumer keeping up: its _NEWEST_SN and the items it
\* puts, obtained by running the receive loop body over the log.
RECURSIVE TwinWs(_, _)
TwinWs(log, c) ==
  IF log = <<>> THEN [sn |-> 0, items |-> <<>>]
  ELSE LET prev == TwinWs(SubSeq(log, 1, Len(log) - 1), c)
           r == recv_loop_body(Recode(log[Len(log)].raw), c, prev.sn,
                               hasQueue, FALSE)
       IN [sn |-> r.sn,
           items |-> IF r.branch = "put" THEN Append(prev.items, r.item)
                     ELSE prev.items]

\* A webhook receiver configured with compress = c, fed the bodies of log
\* recoded for it at the same instants: its ledger and the items it puts,
\* obtained by running on_recv over the log.
RECURSIVE TwinWh(_, _)
TwinWh(log, c) ==
  IF log = <<>> THEN [map |-> EmptyMap, items |-> <<>>]
  ELSE LET prev == TwinWh(SubSeq(log, 1, Len(log) - 1), c)
           e == log[Len(log)]
           r == on_recv(Recode(e.data), c, SECRET, prev.map, e.t, hasQueue,
                        FALSE)
       IN [map |-> r.map,
           items |-> IF r.branch = "put" THEN Append(prev.items, r.item)
                     ELSE prev.items]

\* The items the handlers of a delivery log handed to put(), in the order
\* handled.
RECURSIVE HandedItems(_)
HandedItems(log) ==
  IF log = <<>> THEN <<>>
  ELSE LET rest == HandedItems(SubSeq(log, 1, Len(log) - 1))
           e == log[Len(log)]
       IN IF Handed(e) THEN Append(rest, e.item) ELSE rest

SetAt(ledger, map, k, t) ==
  /\ DOMAIN ledger = DOMAIN map \cup {k}
  /\ ledger[k] = t
  /\ \A j \in DOMAIN map \ {k} : ledger[j] = map[j]

\* C15: dedup ledger lifecycle.  In every step in which a handler runs the
\* dedup check on an envelope at time t: with a sequence number sn, the
\* check answers duplicate iff sn is a key of the ledger and
\* t - ledger[sn] <= 600; a non-duplicate sets ledger[sn] = t and leaves the
\* other entries alone; a duplicate leaves the whole ledger as it was
\* (timestamp not refreshed); without a sequence number the answer is
\* non-duplicate and the ledger is as it was.  No step of the program
\* removes a key.
C15_LedgerLifecycle ==
  /\ [][Len(deliveries') = Len(deliveries) + 1 =>
          LET e == deliveries'[Len(deliveries')] IN
          e.dup # "unchecked" =>
            LET pkg == PkgOf(e.data)
                held == /\ pkg.sn \in DOMAIN sn_dup_map
                        /\ e.t - sn_dup_map[pkg.sn] <= 600
            IN IF ~Has(pkg, "sn")
               THEN e.dup = "fresh" /\ sn_dup_map' = sn_dup_map
               ELSE /\ (e.dup = "dup") <=> held
                    /\ held => sn_dup_map' = sn_dup_map
                    /\ ~held => SetAt(sn_dup_map', sn_dup_map, pkg.sn, e.t)
       ]_vars
  /\ [][DOMAIN sn_dup_map \subseteq DOMAIN sn_dup_map']_vars

\* A duplicate was answered 600 s after the first receipt and the ledger
\* still holds the first receipt's time.
C15_Witness ==
  /\ Len(deliveries) = 2
  /\ deliveries[1].dup = "fresh" /\ deliveries[1].t = 0
  /\ deliveries[2].dup = "dup" /\ deliveries[2].t = 600
  /\ DOMAIN sn_dup_map = {1} /\ sn_dup_map[1] = 0

\* A body on_recv turns away before the dedup check: bytes that do not
\* decode, an empty payload, or an inner verify_token that is not the
\* configured one.
RejectedEarly(raw) ==
  \/ ~Decodes(raw)
  \/ PkgOf(raw).keys = {}
  \/ TokenWrong(raw)

\* The sender wrote sequence number n into the body, whether or not the
\* receiver can decode it.
Carries(raw, n) == SentSn(raw) = n

\* C16: a delivery turned away before the dedup check leaves the ledger and
\* the queue as they were (and suspends no put), in the step that handles
\* it; hence, with the queue set, an event delivery bearing n that follows
\* such a delivery carrying n is handed to the queue unless a delivery with
\* the right token bore n at most 600 seconds before it.
C16_EarlyRejectLeavesNoTrace ==
  /\ [][Len(deliveries') = Len(deliveries) + 1 =>
          LET e == deliveries'[Len(deliveries')] IN
          RejectedEarly(e.data) =>
            /\ sn_dup_map' = sn_dup_map
            /\ pkg_queue' = pkg_queue
            /\ putting' = putting
            /\ ~Handed(e)]_vars
  /\ [](hasQueue =>
         \A i \in Indexes, j \in Indexes, n \in Sns :
           ( /\ i < j
             /\ RejectedEarly(deliveries[i].data)
             /\ Carries(deliveries[i].data, n)
             /\ IsEventDelivery(deliveries[j].data)
             /\ BearsSn(deliveries[j].data, n)
             /\ \A k \in 1..(j - 1) :
                  TokenOk(deliveries[k].data) /\ BearsSn(deliveries[k].data, n)
                    => deliveries[j].t - deliveries[k].t > 600 )
           => Handed(deliveries[j]))

\* A delivery of sequence number 1 with a wrong token was turned away, and
\* the event bearing 1 that came at the same instant was put; the ledger
\* holds the time of the second only.
C16_Witness ==
  /\ hasQueue
  /\ Len(deliveries) = 2
  /\ deliveries[1].data = Wire(WhBadToken, compress)
  /\ deliveries[1].branch = "bad_token"
  /\ deliveries[2].data = Wire(WhEvent1, compress)
  /\ deliveries[2].t = deliveries[1].t
  /\ deliveries[2].branch = "put"
  /\ pkg_queue = <<WhEvent1.d>>

\* C17: handlers interleave only where they suspend (the body read, a put
\* on a full queue), and the dedup check and its insert run in one piece in
\* between: however the handlers of deliveries with the right token and
\* the same sequence number overlap, no two of them that are at most 600
\* seconds apart both hand their payload to the queue.
C17_ConcurrentDuplicatesPutOnce ==
  \A i \in Indexes, j \in Indexes, n \in Sns :
    ( /\ i < j
      /\ TokenOk(deliveries[i].data) /\ BearsSn(deliveries[i].data, n)
      /\ TokenOk(deliveries[j].data) /\ BearsSn(deliveries[j].data, n)
      /\ deliveries[j].t - deliveries[i].t <= 600 )
    => ~(Handed(deliveries[i]) /\ Handed(deliveries[j]))

\* Two handlers of the same event were suspended in request.read() at the
\* same time; the one that ran first put the payload, the other found the
\* sequence number in the ledger.
C17_Witness ==
  /\ raced
  /\ Len(deliveries) = 2
  /\ SameEventTwice(1, 2, 1)
  /\ deliveries[1].data = deliveries[2].data
  /\ deliveries[2].t - deliveries[1].t <= 600
  /\ deliveries[1].branch = "put"
  /\ deliveries[2].branch = "dup"
  /\ Len(pkg_queue) <= 1

\* The frames whose `d` the receive loop has handed to the queue: put, or
\* held by the put() it is suspended in.
Enqueued == {puts[k].idx : k \in 1..Len(puts)} \cup ({pending.idx} \ {0})

\* The sequence number of the last frame handed to the queue, 0 when none
\* was.
LastEnqueuedSn ==
  IF Enqueued = {} THEN 0
  ELSE LET last == CHOOSE i \in Enqueued : \A k \in Enqueued : k <= i
       IN PkgOf(frames[last].raw).sn

\* C18 as stated: each frame is processed all-or-nothing, so the last-seen
\* sequence number is always that of the last frame whose `d` was handed to
\* the queue (0 before any), a frame whose processing raises leaves it as
\* it was, and every heartbeat sent reports 0 or the sequence number of a
\* frame that was enqueued.
C18_FrameAllOrNothing ==
  /\ _NEWEST_SN = LastEnqueuedSn
  /\ beat.sent =>
       \/ beat.msg.sn = 0
       \/ \E i \in Enqueued : PkgOf(frames[i].raw).sn = beat.msg.sn

\* C19 as stated: only deliveries that reach the queue take a slot in the
\* ledger.  With the queue set, when a delivery with the right token and a
\* signal other than 0, or a challenge handshake, bears sequence number n
\* and has been answered (empty, or with the challenge echoed), an event
\* delivery bearing n that arrives at most 600 seconds later, and before
\* which no delivery bearing n was handed to the queue, is handed to the
\* queue.
C19_OnlyQueuedDeliveriesTakeSlot ==
  hasQueue =>
    \A i \in Indexes, j \in Indexes, n \in Sns :
      ( /\ i < j
        /\ TokenOk(deliveries[i].data) /\ BearsSn(deliveries[i].data, n)
        /\ \/ /\ IsControl(deliveries[i].data)
              /\ deliveries[i].branch = "not_event"
           \/ /\ IsChallenge(deliveries[i].data)
              /\ deliveries[i].branch = "challenge"
        /\ IsEventDelivery(deliveries[j].data)
        /\ BearsSn(deliveries[j].data, n)
        /\ deliveries[j].t - deliveries[i].t <= 600
        /\ \A k \in 1..(j - 1) :
             BearsSn(deliveries[k].data, n) => ~Handed(deliveries[k]) )
      => Handed(deliveries[j])

\* C20 as stated: the `channels` property raises ValueError exactly while
\* no channel list is cached; once a fetch_channel_list() call has
\* completed, the property returns the list that call returned, in every
\* later state, whatever Guild operations follow (a later
\* fetch_channel_list() replacing it by its own); and
\* fetch_channel_list(force_update=False) makes a remote list request only
\* when no list is cached.
C20_ChannelCacheStable ==
  /\ channels(_channels).raised <=> ~_channels.some
  /\ fetched.some =>
       /\ ~channels(_channels).raised
       /\ channels(_channels).val = fetched.val
  /\ (called.op = "fetch_channel_list" /\ ~called.force) =>
       (called.requested <=> ~called.cached)

====
